---- MODULE Spec2Model ----
(***************************************************************************)
(* A model of two components of rs-mitm:                                   *)
(*   - AvailabilityList (src/src/avail_list.rs): an intrusive linked list  *)
(*     (the recency order) and an intrusive red-black tree (the identity   *)
(*     index) that share heap-allocated entries;                           *)
(*   - BigFunnyStateMachine (src/src/server.rs): the byte-at-a-time        *)
(*     preamble classifier.                                                *)
(***************************************************************************)
EXTENDS Integers, Sequences, FiniteSets, TLC

(***************************************************************************)
(* Bounds of the model.                                                    *)
(***************************************************************************)
\* number of distinct worker handles (Arc<T> identities) a caller holds
NumHandles == 4
\* number of Entry boxes the heap can hold at once
MaxEntries == 3
\* the pool manager's configured maximum worker count
MaxWorkers == 2
\* capacity of the manager's mailbox
MaxMailbox == 1
\* number of queue_full calls counted in one burst
MaxBurst == 2
\* number of bytes in a chunk of the stream
MaxChunk == 2

Handles == 1..NumHandles

(***************************************************************************)
(* An Entry box is modelled by its fields: shared (the identity of the     *)
(* handle it wraps), tree_link (whether the tree links it) and, for the    *)
(* model's bookkeeping, freed (the box was dropped). Its list_link is its  *)
(* place in the variable list. Boxes with equal fields behave alike, so    *)
(* the boxes that only the tree links are counted per key.                 *)
(***************************************************************************)
VARIABLES
    list,      \* AvailabilityList.list: the boxes linked through list_link, front first
    tree_only, \* AvailabilityList.tree: per key, the boxes it links that the list does not
    cursor,    \* the live VeryLimitedCursor: NoCursor, or a position in list (0: null)
    last,      \* the operation performed last and its argument
    ret,       \* what that operation returned
    status,    \* "running", "panicked" or "ub" (undefined behaviour was executed)
    state,     \* BigFunnyStateMachine.state
    index,     \* BigFunnyStateMachine.index
    fed,       \* the bytes passed to next() so far, in order
    pushed,    \* a caller's record: the handles it pushed, in order
    popped,    \* a caller's record: what its pops returned, in order
    replay,    \* the sniffer's buffer: the bytes it has read from the stream (spec section 6)
    workers,   \* per worker: the manager's view of it (st), its task and whether it is busy
    manager,   \* PoolWorkerManager state: stack, flags, pending wakes, events emitted
    mailbox    \* the messages of workers to the manager, in arrival order

listVars   == <<list, tree_only, cursor>>
sniffVars  == <<state, index, fed>>
callerVars == <<pushed, popped>>
\* the state of the components that the spec describes and src/ does not hold
poolVars == <<workers, manager, mailbox>>
modelledVars == <<replay, workers, manager, mailbox>>
vars       == <<list, tree_only, cursor, last, ret, status, state, index, fed,
                pushed, popped, replay, workers, manager, mailbox>>

(***************************************************************************)
(* Values returned by the operations.                                      *)
(***************************************************************************)
Val(tag, v)   == [tag |-> tag, val |-> v]
Some(h)       == Val("Some", h)
None          == Val("None", 0)
Unit          == Val("Unit", 0)
Bool(b)       == Val(IF b THEN "true" ELSE "false", 0)
\* InsertExistingResult
InsertOk      == Val("Ok", 0)
NoMatch       == Val("NoMatch", 0)
AlreadyInList == Val("AlreadyInList", 0)
\* CursorAtKeyResult
CursorOk      == Val("CursorOk", 0)
NotInList     == Val("NotInList", 0)
\* the call did not return
NoReturn      == Val("NoReturn", 0)

NoCursor == -1

Range(s) == {s[i] : i \in 1..Len(s)}

(***************************************************************************)
(* The intrusive collections.                                              *)
(***************************************************************************)
\* a box that was never inserted into the tree
Entry_untracked(h) == [shared |-> h, tree_link |-> FALSE, freed |-> FALSE]

\* Entry::new_box, once linked into the tree
Entry(h) == [shared |-> h, tree_link |-> TRUE, freed |-> FALSE]

\* the positions of list whose box the tree links, with key h
TreeLinked(h) == {i \in 1..Len(list) : list[i].shared = h /\ list[i].tree_link}

\* the number of boxes the tree holds for key h
tree_count(h) == tree_only[h] + Cardinality(TreeLinked(h))

\* a lookup that goes by the key of every box the list links, whether or not
\* the tree links it
tree_find_by_list(h) ==
    {i \in 1..Len(list) : list[i].shared = h} \cup (IF tree_only[h] > 0 THEN {0} ELSE {})

\* RBTree::find_mut: the boxes whose key (Arc::as_ptr of shared) is the
\* identity looked up, each named by its position in list, or 0 for a box
\* the list does not link; with several, the cursor is on an arbitrary one
tree_find(h) == TreeLinked(h) \cup (IF tree_only[h] > 0 THEN {0} ELSE {})

\* entry.list_link.is_linked() of a box found in the tree
list_link_is_linked(t) == t > 0

\* RBTree::insert of a box the list does not link (yet)
tree_insert(t, h) == [t EXCEPT ![h] = @ + 1]

\* the tree cursor's remove() of such a box
tree_remove(t, h) == [t EXCEPT ![h] = @ - 1]

\* a push_front that links the box at the other end
list_push_front_at_back(l, e) == Append(l, e)

\* LinkedList::push_front / push_back
list_push_front(l, e) == <<e>> \o l
list_push_back(l, e)  == Append(l, e)

\* linked_list::CursorMut::remove at position i >= 1
list_remove(l, i) == SubSeq(l, 1, i - 1) \o SubSeq(l, i + 1, Len(l))

\* the position a cursor at i is left on by CursorMut::remove: the element
\* that followed, the null position when the last one was removed
cursor_after_remove(l, i) == IF i < Len(l) THEN i ELSE 0

\* the positions next to i, whose links an unlink at i writes
Neighbours(l, i) == {i - 1, i + 1} \cap (1..Len(l))

\* positions of list whose box was dropped while the list still links it
Freed == {i \in 1..Len(list) : list[i].freed}

\* the handle is in the recency order: the list links a box that wraps it
InOrder(h) == \E i \in 1..Len(list) : list[i].shared = h

\* the number of boxes the list links that wrap the handle
OrderCount(h) == Cardinality({i \in 1..Len(list) : list[i].shared = h})

RECURSIVE SumOver(_, _)
SumOver(f, S) == IF S = {} THEN 0
                 ELSE LET x == CHOOSE y \in S : TRUE
                      IN f[x] + SumOver(f, S \ {x})

\* Box::new succeeds while the heap has room
HeapHasRoom == Len(list) + SumOver(tree_only, Handles) < MaxEntries

(***************************************************************************)
(* How an operation ends.                                                  *)
(***************************************************************************)
Return(op, arg, r) ==
    /\ last' = [op |-> op, arg |-> arg]
    /\ ret' = r
    /\ status' = "running"

\* the operation aborts: panic!, expect, unreachable!, debug_assert!
Panic(op, arg) ==
    /\ last' = [op |-> op, arg |-> arg]
    /\ ret' = NoReturn
    /\ status' = "panicked"

\* the operation reads or writes a box that was dropped; what the structures
\* hold afterwards is not defined, and the actions leave them as they were
Undefined(op, arg) ==
    /\ last' = [op |-> op, arg |-> arg]
    /\ ret' = NoReturn
    /\ status' = "ub"

Idle == status = "running" /\ cursor = NoCursor

(***************************************************************************)
(* The pool manager and its workers (spec sections 3, 4.2 and 5). Workers  *)
(* are named by the identity of their handle.                              *)
(***************************************************************************)
Workers == 1..MaxWorkers

\* a worker nobody spawned yet
NoWorker == [st |-> "unspawned", task |-> "none", busy |-> FALSE]

\* no exit negotiation is under way
NoRequest == [w |-> 0, force |-> FALSE, in_order |-> FALSE, reply |-> "none"]

\* the manager before it handled any event. exit_req is the RequestExit it
\* awaits the reply to: the worker, the force flag, the reply once given,
\* and, for the properties, whether the worker was in the order at the
\* request
NewManager ==
    [stack |-> <<>>, may_spawn |-> TRUE, draining |-> FALSE, wakes |-> 0,
     burst |-> 0, pool_empty |-> 0, exit_req |-> NoRequest]

\* PoolManagerMessage: WorkerAvailable and WorkerShutdown, each with the worker
Msg(type, w) == [type |-> type, w |-> w]

\* The report of a started worker that it is ready; PoolManagerMessage has
\* no variant for it, the event is taken from the worker lifecycle.
WorkerReady(w) == [type |-> "WorkerReady", w |-> w]

(***************************************************************************)
(* AvailabilityList::new, BigFunnyStateMachine::new                        *)
(***************************************************************************)
Init ==
    /\ list = <<>>
    /\ tree_only = [h \in Handles |-> 0]
    /\ cursor = NoCursor
    /\ last = [op |-> "new", arg |-> 0]
    /\ ret = Unit
    /\ status = "running"
    /\ state = "INIT"
    /\ index = 0
    /\ fed = <<>>
    /\ pushed = <<>>
    /\ popped = <<>>
    /\ replay = <<>>
    /\ workers = [w \in Workers |-> NoWorker]
    /\ manager = NewManager
    /\ mailbox = <<>>

(***************************************************************************)
(* push_front_new / push_back_new                                          *)
(***************************************************************************)
push_front_new(h) ==
    /\ Idle
    /\ HeapHasRoom
    /\ \/ \* tree.insert(ptr.clone()); list.push_front(ptr)
          /\ list' = list_push_front(list, Entry(h))
          /\ UNCHANGED <<tree_only, cursor>>
          /\ Return("push_front_new", h, Unit)
       \/ \* the allocator may hand out a box the list still links, and
          \* push_front writes the old head's link
          /\ Freed # {}
          /\ UNCHANGED listVars
          /\ Undefined("push_front_new", h)

push_back_new(h) ==
    /\ Idle
    /\ HeapHasRoom
    /\ \/ /\ list' = list_push_back(list, Entry(h))
          /\ UNCHANGED <<tree_only, cursor>>
          /\ Return("push_back_new", h, Unit)
       \/ /\ Freed # {}
          /\ UNCHANGED listVars
          /\ Undefined("push_back_new", h)

(***************************************************************************)
(* push_front_existing / push_back_existing                                *)
(***************************************************************************)
push_front_existing(h) ==
    /\ Idle
    /\ IF tree_find(h) = {}
       THEN /\ UNCHANGED listVars
            /\ Return("push_front_existing", h, NoMatch)
       ELSE \E t \in tree_find(h) :
              IF list_link_is_linked(t)
              THEN /\ UNCHANGED listVars
                   /\ Return("push_front_existing", h, AlreadyInList)
              ELSE \/ /\ list' = list_push_front(list, Entry(h))
                      /\ tree_only' = tree_remove(tree_only, h)
                      /\ UNCHANGED cursor
                      /\ Return("push_front_existing", h, InsertOk)
                   \/ \* push_front writes the link of the old head
                      /\ 1 \in Freed
                      /\ UNCHANGED listVars
                      /\ Undefined("push_front_existing", h)

push_back_existing(h) ==
    /\ Idle
    /\ IF tree_find(h) = {}
       THEN /\ UNCHANGED listVars
            /\ Return("push_back_existing", h, NoMatch)
       ELSE \E t \in tree_find(h) :
              IF list_link_is_linked(t)
              THEN /\ UNCHANGED listVars
                   /\ Return("push_back_existing", h, AlreadyInList)
              ELSE \/ /\ list' = list_push_back(list, Entry(h))
                      /\ tree_only' = tree_remove(tree_only, h)
                      /\ UNCHANGED cursor
                      /\ Return("push_back_existing", h, InsertOk)
                   \/ \* push_back writes the link of the old tail
                      /\ list # <<>> /\ Len(list) \in Freed
                      /\ UNCHANGED listVars
                      /\ Undefined("push_back_existing", h)

(***************************************************************************)
(* hybrid_remove_entry_by_list_cursor, with the list cursor at position i  *)
(* (0: the null position). keep: the cursor outlives the call.             *)
(***************************************************************************)
hybrid_remove_entry_by_list_cursor(i, keep, op, arg) ==
    IF i = 0
    THEN \* cursor.remove()? on the null position
         /\ UNCHANGED listVars
         /\ Return(op, arg, None)
    ELSE \/ \* the box is unlinked from the list, then from the tree, and
            \* dropped
            /\ list[i].tree_link
            /\ list' = list_remove(list, i)
            /\ cursor' = IF keep THEN cursor_after_remove(list, i) ELSE NoCursor
            /\ UNCHANGED tree_only
            /\ Return(op, arg, Some(list[i].shared))
         \/ \* line 77 has unlinked the box from the list and moved the cursor
            \* when debug_assert!(ptr.tree_link.is_linked()) fails (debug
            \* builds)
            /\ ~list[i].tree_link
            /\ list' = list_remove(list, i)
            /\ cursor' = IF keep THEN cursor_after_remove(list, i) ELSE NoCursor
            /\ UNCHANGED tree_only
            /\ Panic(op, arg)
         \/ \* without debug assertions the box goes to
            \* tree.cursor_mut_from_ptr although the tree does not link it; and
            \* unlinking reads the links of the box and writes its neighbours'
            /\ ~list[i].tree_link \/ ({i} \cup Neighbours(list, i)) \cap Freed # {}
            /\ UNCHANGED listVars
            /\ Undefined(op, arg)

pop_front_full ==
    /\ Idle
    /\ hybrid_remove_entry_by_list_cursor(IF list = <<>> THEN 0 ELSE 1, FALSE,
                                          "pop_front_full", 0)

pop_back_full ==
    /\ Idle
    /\ hybrid_remove_entry_by_list_cursor(Len(list), FALSE, "pop_back_full", 0)

(***************************************************************************)
(* hybrid_remove_entry_by_tree_cursor, with the tree cursor on one of the  *)
(* boxes found (the null position when none was).                          *)
(***************************************************************************)
\* line 92: cursor.remove() unlinks the box from the tree and releases its
\* tree_link
released(e) == [e EXCEPT !.tree_link = FALSE]

\* line 94: the test made on the box that line 92 unlinked
removed_entry_is_linked(e) == released(e).tree_link

\* line 99: UnsafeRef::into_box(ptr) drops the box
dropped(e) == [e EXCEPT !.freed = TRUE]

\* lines 92-99 for the box at position t >= 1 of list
list_after_tree_remove(l, t) ==
    IF removed_entry_is_linked(l[t])
    THEN list_remove(l, t)
    ELSE [l EXCEPT ![t] = dropped(released(l[t]))]

hybrid_remove_entry_by_tree_cursor(h, found, op, arg) ==
    IF found = {}
    THEN \* cursor.remove()? on the null position
         /\ UNCHANGED listVars
         /\ Return(op, arg, None)
    ELSE \E t \in found :
            /\ IF t = 0
               THEN /\ tree_only' = tree_remove(tree_only, h)
                    /\ UNCHANGED list
               ELSE /\ list' = list_after_tree_remove(list, t)
                    /\ UNCHANGED tree_only
            /\ UNCHANGED cursor
            /\ Return(op, arg, Some(h))

remove_by_key(h) ==
    /\ Idle
    /\ hybrid_remove_entry_by_tree_cursor(h, tree_find(h), "remove_by_key", h)

(***************************************************************************)
(* cursor_front / cursor_back / cursor_at_key                              *)
(***************************************************************************)
cursor_front ==
    /\ Idle
    /\ cursor' = IF list = <<>> THEN 0 ELSE 1
    /\ UNCHANGED <<list, tree_only>>
    /\ Return("cursor_front", 0, Unit)

cursor_back ==
    /\ Idle
    /\ cursor' = Len(list)
    /\ UNCHANGED <<list, tree_only>>
    /\ Return("cursor_back", 0, Unit)

cursor_at_key(h) ==
    /\ Idle
    /\ IF tree_find(h) = {}
       THEN /\ UNCHANGED listVars
            /\ Return("cursor_at_key", h, NoMatch)
       ELSE \E t \in tree_find(h) :
              IF ~list_link_is_linked(t)
              THEN /\ UNCHANGED listVars
                   /\ Return("cursor_at_key", h, NotInList)
              ELSE /\ cursor' = t
                   /\ UNCHANGED <<list, tree_only>>
                   /\ Return("cursor_at_key", h, CursorOk)

(***************************************************************************)
(* VeryLimitedCursor                                                       *)
(***************************************************************************)
HasCursor == status = "running" /\ cursor # NoCursor

cursor_get ==
    /\ HasCursor
    /\ UNCHANGED listVars
    /\ IF cursor = 0
       THEN Return("get", 0, None)
       ELSE \/ Return("get", 0, Some(list[cursor].shared))
            \/ /\ cursor \in Freed
               /\ Undefined("get", 0)

cursor_remove_full ==
    /\ HasCursor
    /\ hybrid_remove_entry_by_list_cursor(cursor, TRUE, "remove_full", 0)

cursor_remove_list ==
    /\ HasCursor
    /\ IF cursor = 0
       THEN /\ UNCHANGED listVars
            /\ Return("remove_list", 0, Bool(FALSE))
       ELSE \/ /\ list' = list_remove(list, cursor)
               /\ cursor' = cursor_after_remove(list, cursor)
               \* the tree goes on linking the box, if it did
               /\ tree_only' = IF list[cursor].tree_link
                               THEN tree_insert(tree_only, list[cursor].shared)
                               ELSE tree_only
               /\ Return("remove_list", 0, Bool(TRUE))
            \/ /\ ({cursor} \cup Neighbours(list, cursor)) \cap Freed # {}
               /\ UNCHANGED listVars
               /\ Undefined("remove_list", 0)

cursor_move_prev ==
    /\ HasCursor
    /\ \/ /\ cursor' = IF cursor = 0 THEN Len(list) ELSE cursor - 1
          /\ UNCHANGED <<list, tree_only>>
          /\ Return("move_prev", 0, Unit)
       \/ /\ cursor \in Freed
          /\ UNCHANGED listVars
          /\ Undefined("move_prev", 0)

\* a move_next that steps towards the front
cursor_move_next_backwards ==
    /\ HasCursor
    /\ \/ /\ cursor' = IF cursor = 0 THEN Len(list) ELSE cursor - 1
          /\ UNCHANGED <<list, tree_only>>
          /\ Return("move_next", 0, Unit)
       \/ /\ cursor \in Freed
          /\ UNCHANGED listVars
          /\ Undefined("move_next", 0)

cursor_move_next ==
    /\ HasCursor
    /\ \/ /\ cursor' = IF cursor = Len(list) THEN 0 ELSE cursor + 1
          /\ UNCHANGED <<list, tree_only>>
          /\ Return("move_next", 0, Unit)
       \/ /\ cursor \in Freed
          /\ UNCHANGED listVars
          /\ Undefined("move_next", 0)

cursor_is_null ==
    /\ HasCursor
    /\ UNCHANGED listVars
    /\ Return("is_null", 0, Bool(cursor = 0))

\* the cursor goes out of scope and the list can be borrowed again
cursor_drop ==
    /\ HasCursor
    /\ cursor' = NoCursor
    /\ UNCHANGED <<list, tree_only>>
    /\ Return("drop", 0, Unit)

(***************************************************************************)
(* BigFunnyStateMachine: the preamble classifier. Bytes are the integers   *)
(* 0..255; a byte-string literal is the sequence of its bytes.             *)
(***************************************************************************)
\* b"CONNECT "
LitCONNECT == <<67, 79, 78, 78, 69, 67, 84, 32>>
\* b"DELETE "
LitDELETE  == <<68, 69, 76, 69, 84, 69, 32>>
\* b"GET "
LitGET     == <<71, 69, 84, 32>>
\* b"HEAD "
LitHEAD    == <<72, 69, 65, 68, 32>>
\* b"OPTIONS "
LitOPTIONS == <<79, 80, 84, 73, 79, 78, 83, 32>>
\* b"PRI * HTTP/2.0\r\n\r\nSM\r\n\r\n"
LitHTTP2   == <<80, 82, 73, 32, 42, 32, 72, 84, 84, 80, 47, 50, 46, 48, 13, 10, 13, 10, 83, 77, 13, 10, 13, 10>>
\* b"POST "
LitPOST    == <<80, 79, 83, 84, 32>>
\* b"PUT "
LitPUT     == <<80, 85, 84, 32>>
\* b"PATCH "
LitPATCH   == <<80, 65, 84, 67, 72, 32>>
\* b"TRACE "
LitTRACE   == <<84, 82, 65, 67, 69, 32>>

Terminal == {"REJECT", "ACCEPT_TLS", "ACCEPT_HTTP1", "ACCEPT_HTTP2"}

\* what a match arm that is unreachable!() evaluates to
Unreachable == "unreachable"

\* a literal_state! that compares idx with the length, not the last offset
literal_state_off_by_one(st, idx, byte, pattern, accept) ==
    IF idx < Len(pattern)
    THEN IF byte = pattern[idx + 1]
         THEN IF idx = Len(pattern) THEN accept ELSE st
         ELSE "REJECT"
    ELSE "REJECT"

\* a literal_state! that accepts one byte after the end of the literal
literal_state_late_accept(st, idx, byte, pattern, accept) ==
    IF idx < Len(pattern)
    THEN IF byte = pattern[idx + 1] THEN st ELSE "REJECT"
    ELSE IF idx = Len(pattern) THEN accept ELSE "REJECT"

\* the macro literal_state!: $pattern.get($idx) is the byte at offset idx
\* (pattern[idx + 1] here), None past the end
literal_state(st, idx, byte, pattern, accept) ==
    IF idx < Len(pattern)
    THEN IF byte = pattern[idx + 1]
         THEN IF idx = Len(pattern) - 1 THEN accept ELSE st
         ELSE "REJECT"
    ELSE "REJECT"

\* an INIT dispatch that takes a first byte it does not know for a TLS record
init_arms_lenient(byte) ==
    CASE byte = 67 -> "CONNECT"
      [] byte = 68 -> "DELETE"
      [] byte = 71 -> "GET"
      [] byte = 72 -> "HEAD"
      [] byte = 79 -> "OPTIONS"
      [] byte = 80 -> "P0"
      [] byte = 84 -> "TRACE"
      [] OTHER -> "TLS"

\* an INIT dispatch that waits in INIT for a first byte it knows
init_arms_waiting(byte) ==
    CASE byte = 22 -> "TLS"
      [] byte = 67 -> "CONNECT"
      [] byte = 68 -> "DELETE"
      [] byte = 71 -> "GET"
      [] byte = 72 -> "HEAD"
      [] byte = 79 -> "OPTIONS"
      [] byte = 80 -> "P0"
      [] byte = 84 -> "TRACE"
      [] OTHER -> "INIT"

\* the arms (INIT, 0, _) of the match
init_arms(byte) ==
    CASE byte = 22 -> "TLS"
      [] byte = 67 -> "CONNECT"
      [] byte = 68 -> "DELETE"
      [] byte = 71 -> "GET"
      [] byte = 72 -> "HEAD"
      [] byte = 79 -> "OPTIONS"
      [] byte = 80 -> "P0"
      [] byte = 84 -> "TRACE"
      [] OTHER -> "REJECT"

\* a TLS matcher that skips one length byte only
tls_arms_early_accept(idx, byte) ==
    IF idx = 1 /\ byte = 3 THEN "TLS"
    ELSE IF idx = 2 /\ byte = 1 THEN "TLS"
    ELSE IF idx = 3 THEN "TLS"
    ELSE IF idx = 4 /\ byte = 1 THEN "ACCEPT_TLS"
    ELSE "REJECT"

\* the arms (TLS, _, _) of the match
tls_arms(idx, byte) ==
    IF idx = 1 /\ byte = 3 THEN "TLS"
    ELSE IF idx = 2 /\ byte = 1 THEN "TLS"
    ELSE IF idx \in {3, 4} THEN "TLS"
    ELSE IF idx = 5 /\ byte = 1 THEN "ACCEPT_TLS"
    ELSE "REJECT"

\* a P0 dispatch without the arm of the HTTP/2 preface
p0_arms_without_http2(byte) ==
    CASE byte = 79 -> "POST"
      [] byte = 85 -> "PUT"
      [] byte = 65 -> "PATCH"
      [] OTHER -> "REJECT"

\* a P0 dispatch that sends "PU" to the matcher of POST
p0_arms_misdispatch(byte) ==
    CASE byte = 79 -> "POST"
      [] byte = 85 -> "POST"
      [] byte = 65 -> "PATCH"
      [] byte = 82 -> "HTTP2"
      [] OTHER -> "REJECT"

\* the arms (P0, 1, _) of the match
p0_arms(byte) ==
    CASE byte = 79 -> "POST"
      [] byte = 85 -> "PUT"
      [] byte = 65 -> "PATCH"
      [] byte = 82 -> "HTTP2"
      [] OTHER -> "REJECT"

\* the arms of the literal matchers
literal_arms(st, idx, byte) ==
    CASE st = "CONNECT" -> literal_state("CONNECT", idx, byte, LitCONNECT, "ACCEPT_HTTP1")
      [] st = "DELETE"  -> literal_state("DELETE", idx, byte, LitDELETE, "ACCEPT_HTTP1")
      [] st = "GET"     -> literal_state("GET", idx, byte, LitGET, "ACCEPT_HTTP1")
      [] st = "HEAD"    -> literal_state("HEAD", idx, byte, LitHEAD, "ACCEPT_HTTP1")
      [] st = "OPTIONS" -> literal_state("OPTIONS", idx, byte, LitOPTIONS, "ACCEPT_HTTP1")
      [] st = "HTTP2"   -> literal_state("HTTP2", idx, byte, LitHTTP2, "ACCEPT_HTTP2")
      [] st = "POST"    -> literal_state("POST", idx, byte, LitPOST, "ACCEPT_HTTP1")
      [] st = "PUT"     -> literal_state("PUT", idx, byte, LitPUT, "ACCEPT_HTTP1")
      [] st = "PATCH"   -> literal_state("PATCH", idx, byte, LitPATCH, "ACCEPT_HTTP1")
      [] st = "TRACE"   -> literal_state("TRACE", idx, byte, LitTRACE, "ACCEPT_HTTP1")

\* a match whose last arm rejects again instead of being unreachable!()
next_state_restarting(st, idx, byte) ==
    IF st = "INIT" THEN (IF idx = 0 THEN init_arms(byte) ELSE Unreachable)
    ELSE IF idx = 0 THEN Unreachable
    ELSE IF st = "TLS" THEN tls_arms(idx, byte)
    ELSE IF st = "P0" THEN (IF idx = 1 THEN p0_arms(byte) ELSE Unreachable)
    ELSE IF st \in Terminal THEN "REJECT"
    ELSE literal_arms(st, idx, byte)

\* the match on (self.state, self.index, byte), its arms tried in order
next_state(st, idx, byte) ==
    IF st = "INIT" THEN (IF idx = 0 THEN init_arms(byte) ELSE Unreachable)
    ELSE IF idx = 0 THEN Unreachable
    ELSE IF st = "TLS" THEN tls_arms(idx, byte)
    ELSE IF st = "P0" THEN (IF idx = 1 THEN p0_arms(byte) ELSE Unreachable)
    ELSE IF st \in Terminal THEN Unreachable
    ELSE literal_arms(st, idx, byte)

\* a next that builds its result with index: self.index
next_uncounted(byte) ==
    /\ status = "running"
    /\ IF next_state(state, index, byte) = Unreachable
       THEN /\ status' = "panicked"
            /\ UNCHANGED sniffVars
       ELSE /\ state' = next_state(state, index, byte)
            /\ index' = index
            /\ fed' = Append(fed, byte)
            /\ UNCHANGED status

\* BigFunnyStateMachine::next(self, byte)
next(byte) ==
    /\ status = "running"
    /\ IF next_state(state, index, byte) = Unreachable
       THEN /\ status' = "panicked"
            /\ UNCHANGED sniffVars
       ELSE /\ state' = next_state(state, index, byte)
            /\ index' = index + 1
            /\ fed' = Append(fed, byte)
            /\ UNCHANGED status

\* the bytes the classifier is fed: those its literals and patterns name,
\* and some they do not
PatternBytes ==
    UNION {Range(l) : l \in {LitCONNECT, LitDELETE, LitGET, LitHEAD, LitOPTIONS,
                             LitHTTP2, LitPOST, LitPUT, LitPATCH, LitTRACE}}
        \cup {22, 3, 1}
OtherBytes == {0, 90, 103, 255}
Bytes == PatternBytes \cup OtherBytes

(***************************************************************************)
(* The AvailabilityList under any sequence of calls.                       *)
(***************************************************************************)
PushFrontNew      == \E h \in Handles : push_front_new(h) /\ UNCHANGED <<sniffVars, callerVars, modelledVars>>
PushBackNew       == \E h \in Handles : push_back_new(h) /\ UNCHANGED <<sniffVars, callerVars, modelledVars>>
PushFrontExisting == \E h \in Handles : push_front_existing(h) /\ UNCHANGED <<sniffVars, callerVars, modelledVars>>
PushBackExisting  == \E h \in Handles : push_back_existing(h) /\ UNCHANGED <<sniffVars, callerVars, modelledVars>>
PopFrontFull      == pop_front_full /\ UNCHANGED <<sniffVars, callerVars, modelledVars>>
PopBackFull       == pop_back_full /\ UNCHANGED <<sniffVars, callerVars, modelledVars>>
RemoveByKey       == \E h \in Handles : remove_by_key(h) /\ UNCHANGED <<sniffVars, callerVars, modelledVars>>
CursorFront       == cursor_front /\ UNCHANGED <<sniffVars, callerVars, modelledVars>>
CursorBack        == cursor_back /\ UNCHANGED <<sniffVars, callerVars, modelledVars>>
CursorAtKey       == \E h \in Handles : cursor_at_key(h) /\ UNCHANGED <<sniffVars, callerVars, modelledVars>>
CursorGet         == cursor_get /\ UNCHANGED <<sniffVars, callerVars, modelledVars>>
CursorRemoveFull  == cursor_remove_full /\ UNCHANGED <<sniffVars, callerVars, modelledVars>>
CursorRemoveList  == cursor_remove_list /\ UNCHANGED <<sniffVars, callerVars, modelledVars>>
CursorMovePrev    == cursor_move_prev /\ UNCHANGED <<sniffVars, callerVars, modelledVars>>
CursorMoveNext    == cursor_move_next /\ UNCHANGED <<sniffVars, callerVars, modelledVars>>
CursorIsNull      == cursor_is_null /\ UNCHANGED <<sniffVars, callerVars, modelledVars>>
CursorDrop        == cursor_drop /\ UNCHANGED <<sniffVars, callerVars, modelledVars>>

Next ==
    \/ PushFrontNew \/ PushBackNew \/ PushFrontExisting \/ PushBackExisting
    \/ PopFrontFull \/ PopBackFull \/ RemoveByKey
    \/ CursorFront \/ CursorBack \/ CursorAtKey
    \/ CursorGet \/ CursorRemoveFull \/ CursorRemoveList
    \/ CursorMovePrev \/ CursorMoveNext \/ CursorIsNull \/ CursorDrop

Spec == Init /\ [][Next]_vars

(***************************************************************************)
(* A caller that pushes distinct handles to the front of a new list, then  *)
(* pops from the front until a pop returns nothing.                        *)
(***************************************************************************)
LifoPush ==
    \E h \in Handles \ Range(pushed) :
        /\ popped = <<>>
        /\ push_front_new(h)
        /\ pushed' = Append(pushed, h)
        /\ UNCHANGED <<popped, sniffVars, modelledVars>>

LifoPop ==
    /\ Len(popped) <= Len(pushed)
    /\ pop_front_full
    /\ popped' = Append(popped, ret')
    /\ UNCHANGED <<pushed, sniffVars, modelledVars>>

LifoNext == LifoPush \/ LifoPop

SpecLifo == Init /\ [][LifoNext]_vars

(***************************************************************************)
(* A caller that pushes distinct handles to the back of a new list, takes  *)
(* a cursor at the front and walks it to the end, calling get at every     *)
(* position (the test derp).                                               *)
(***************************************************************************)
WalkPush ==
    \E h \in Handles \ Range(pushed) :
        /\ popped = <<>>
        /\ push_back_new(h)
        /\ pushed' = Append(pushed, h)
        /\ UNCHANGED <<popped, sniffVars, modelledVars>>

WalkFront ==
    /\ cursor_front
    /\ UNCHANGED <<callerVars, sniffVars, modelledVars>>

WalkGet ==
    /\ last.op \in {"cursor_front", "move_next"}
    /\ cursor_get
    /\ popped' = Append(popped, ret')
    /\ UNCHANGED <<pushed, sniffVars, modelledVars>>

WalkMoveNext ==
    /\ last.op = "get"
    /\ Len(popped) <= Len(pushed)
    /\ cursor_move_next
    /\ UNCHANGED <<callerVars, sniffVars, modelledVars>>

WalkNext == WalkPush \/ WalkFront \/ WalkGet \/ WalkMoveNext

SpecWalk == Init /\ [][WalkNext]_vars

(***************************************************************************)
(* The classifier fed any bytes.                                           *)
(***************************************************************************)
SnifferNext == \E b \in Bytes : next(b) /\ UNCHANGED <<listVars, last, ret, callerVars, modelledVars>>

SpecSniffer == Init /\ [][SnifferNext]_vars

(***************************************************************************)
(* The sniffer (spec sections 4.3 and 6): it reads the stream in chunks of *)
(* any size into its buffer, passes the buffered bytes to the classifier   *)
(* one at a time until the classifier is in a terminal state, and hands on *)
(* the classification with the bytes the classifier consumed.              *)
(***************************************************************************)
\* the bytes of the chunks: those of "GET ", "PR" and a TLS header, and one
\* that no pattern names
ChunkBytes == {71, 69, 84, 32, 80, 82, 22, 3, 1, 90}

\* the chunks the stream may deliver
Chunks == UNION {[1..n -> ChunkBytes] : n \in 1..MaxChunk}

\* the sniffer reads the next chunk of the stream once the classifier has
\* consumed all it had buffered
sniffer_receive(chunk) ==
    /\ status = "running"
    /\ state \notin Terminal
    /\ index = Len(replay)
    /\ replay' = replay \o chunk
    /\ UNCHANGED <<sniffVars, status>>

\* the sniffer passes the next buffered byte to the classifier
sniffer_feed ==
    /\ state \notin Terminal
    /\ index < Len(replay)
    /\ next(replay[index + 1])
    /\ UNCHANGED replay

\* the classification the sniffer hands on
classification(st) ==
    CASE st = "ACCEPT_TLS"   -> "TLS"
      [] st = "ACCEPT_HTTP1" -> "HTTP1"
      [] st = "ACCEPT_HTTP2" -> "HTTP2"
      [] st = "REJECT"       -> "Reject"

\* an output that hands on all the sniffer has buffered
sniffer_output_whole_buffer == [class |-> classification(state), bytes |-> replay]

\* the sniffer's output once the classifier is in a terminal state: the
\* classification and the bytes consumed, which are the first index bytes of
\* the buffer
sniffer_output ==
    [class |-> classification(state), bytes |-> SubSeq(replay, 1, index)]

SnifferReceive == \E c \in Chunks : sniffer_receive(c) /\ UNCHANGED <<listVars, last, ret, callerVars, poolVars>>
SnifferFeed    == sniffer_feed /\ UNCHANGED <<listVars, last, ret, callerVars, poolVars>>

ReplayNext == SnifferReceive \/ SnifferFeed

SpecReplay == Init /\ [][ReplayNext]_vars

(***************************************************************************)
(* The pool: the manager's control loop handles one event at a time and is *)
(* the only caller of the AvailabilityList; workers and the facade send it *)
(* messages.                                                               *)
(***************************************************************************)
poolFrame == <<sniffVars, callerVars, replay>>

\* the worker-task handles of a stack, w taken out
without(stk, w) == SelectSeq(stk, LAMBDA x : x # w)

\* the workers the manager counts as live
Live == {w \in Workers : workers[w].st \in {"starting", "active", "exit_requested"}}

\* the control loop takes the next event: it is not suspended on the confirm
\* channel of a RequestExit
ManagerIdle == manager.exit_req.w = 0

Unspawned == {w \in Workers : workers[w].st = "unspawned"}

\* a drain completes, and PoolEmpty is emitted, when the manager's stack and
\* the recency order l are both empty
emit_pool_empty(m, l) ==
    IF m.draining /\ m.stack = <<>> /\ l = <<>>
    THEN [m EXCEPT !.pool_empty = @ + 1]
    ELSE m

\* a worker task that was spawned reports ready
worker_report_ready(w) ==
    /\ status = "running"
    /\ workers[w].task = "started"
    /\ Len(mailbox) < MaxMailbox
    /\ workers' = [workers EXCEPT ![w].task = "running"]
    /\ mailbox' = Append(mailbox, WorkerReady(w))
    /\ Return("report_ready", w, Unit)
    /\ UNCHANGED <<listVars, manager>>

\* a worker completes its request and notifies the manager
worker_complete(w) ==
    /\ status = "running"
    /\ workers[w].task = "running" /\ workers[w].busy
    /\ Len(mailbox) < MaxMailbox
    /\ workers' = [workers EXCEPT ![w].busy = FALSE]
    /\ mailbox' = Append(mailbox, Msg("WorkerAvailable", w))
    /\ Return("complete", w, Unit)
    /\ UNCHANGED <<listVars, manager>>

\* another notifier reports the idle worker available once more
worker_notify_again(w) ==
    /\ status = "running"
    /\ workers[w].task = "running" /\ ~workers[w].busy
    /\ Len(mailbox) < MaxMailbox
    /\ mailbox' = Append(mailbox, Msg("WorkerAvailable", w))
    /\ Return("notify_again", w, Unit)
    /\ UNCHANGED <<listVars, manager, workers>>

\* a worker task terminates abnormally
worker_fail(w) ==
    /\ status = "running"
    /\ workers[w].task = "running"
    /\ Len(mailbox) < MaxMailbox
    /\ workers' = [workers EXCEPT ![w].task = "ended", ![w].busy = FALSE]
    /\ mailbox' = Append(mailbox, Msg("WorkerShutdown", w))
    /\ Return("fail", w, Unit)
    /\ UNCHANGED <<listVars, manager>>

\* queue_full without coalescing: every call posts a wake
queue_full_per_event ==
    /\ status = "running"
    /\ manager.burst < MaxBurst
    /\ manager' = [manager EXCEPT !.wakes = IF manager.may_spawn THEN @ + 1 ELSE @,
                                  !.burst = @ + 1]
    /\ Return("queue_full", 0, Unit)
    /\ UNCHANGED <<listVars, workers, mailbox>>

\* the facade's queue_full: posts a wake if the manager may spawn and none is
\* pending
queue_full ==
    /\ status = "running"
    /\ manager.burst < MaxBurst
    /\ manager' = [manager EXCEPT !.wakes = IF manager.may_spawn /\ @ = 0 THEN 1 ELSE @,
                                  !.burst = @ + 1]
    /\ Return("queue_full", 0, Unit)
    /\ UNCHANGED <<listVars, workers, mailbox>>

\* the manager handles the wake: it re-checks the flag and the live worker
\* count, and spawns at most one worker
handle_wake ==
    /\ status = "running"
    /\ ManagerIdle
    /\ manager.wakes > 0
    /\ IF manager.may_spawn /\ ~manager.draining /\ Cardinality(Live) < MaxWorkers
          /\ Unspawned # {}
       THEN LET w == CHOOSE x \in Unspawned : \A y \in Unspawned : x <= y
            IN /\ workers' = [workers EXCEPT ![w] = [st |-> "starting", task |-> "started",
                                                     busy |-> FALSE]]
               /\ manager' = [manager EXCEPT !.wakes = @ - 1, !.burst = 0,
                                             !.stack = <<w>> \o @,
                                             !.may_spawn = Cardinality(Live) + 1 < MaxWorkers]
       ELSE /\ manager' = [manager EXCEPT !.wakes = @ - 1, !.burst = 0]
            /\ UNCHANGED workers
    /\ Return("wake", 0, Unit)
    /\ UNCHANGED <<listVars, mailbox>>

\* Starting -> Active: the manager pushes the worker that reported ready
handle_ready(w) ==
    /\ ManagerIdle
    /\ mailbox # <<>> /\ Head(mailbox) = WorkerReady(w)
    /\ push_front_new(w)
    /\ mailbox' = Tail(mailbox)
    /\ workers' = [workers EXCEPT ![w].st = "active"]
    /\ UNCHANGED manager

\* the manager assigns a request to the worker at the front of the order,
\* which leaves the order and stays in the index (cursor_front, get,
\* remove_list)
assign ==
    /\ Idle
    /\ ManagerIdle
    /\ list # <<>>
    /\ \/ /\ list' = list_remove(list, 1)
          /\ tree_only' = IF list[1].tree_link
                          THEN tree_insert(tree_only, list[1].shared)
                          ELSE tree_only
          /\ UNCHANGED cursor
          /\ workers' = IF /\ list[1].shared \in Workers
                           /\ workers[list[1].shared].task = "running"
                        THEN [workers EXCEPT ![list[1].shared].busy = TRUE]
                        ELSE workers
          /\ Return("assign", list[1].shared, Unit)
       \/ /\ ({1} \cup Neighbours(list, 1)) \cap Freed # {}
          /\ UNCHANGED <<listVars, workers>>
          /\ Undefined("assign", 0)
    /\ UNCHANGED <<manager, mailbox>>

\* WorkerAvailable: the manager re-admits the worker; Ok, AlreadyInList and
\* NoMatch all end the handling of the notification
handle_available(w) ==
    /\ ManagerIdle
    /\ mailbox # <<>> /\ Head(mailbox) = Msg("WorkerAvailable", w)
    /\ push_front_existing(w)
    /\ mailbox' = Tail(mailbox)
    /\ UNCHANGED <<workers, manager>>

\* the bookkeeping of an exit: the task is joined, the handle leaves the
\* stack, and a drain may complete
retire(w) ==
    /\ workers' = [workers EXCEPT ![w] = [st |-> "exited", task |-> "ended", busy |-> FALSE]]
    /\ manager' = emit_pool_empty([manager EXCEPT !.stack = without(@, w),
                                                  !.may_spawn = ~manager.draining,
                                                  !.exit_req = NoRequest],
                                  list')

\* WorkerShutdown: an abnormal termination goes straight to the removal
handle_shutdown(w) ==
    /\ ManagerIdle
    /\ mailbox # <<>> /\ Head(mailbox) = Msg("WorkerShutdown", w)
    /\ remove_by_key(w)
    /\ retire(w)
    /\ mailbox' = Tail(mailbox)

\* Active -> ExitRequested: the manager sends RequestExit{confirm, force} to
\* worker w and awaits the reply on confirm
request_exit(w, force) ==
    /\ Idle
    /\ ManagerIdle
    /\ workers[w].st = "active"
    /\ workers' = [workers EXCEPT ![w].st = "exit_requested"]
    /\ manager' = [manager EXCEPT !.exit_req = [w |-> w, force |-> force,
                                                in_order |-> InOrder(w),
                                                reply |-> "none"]]
    /\ Return("request_exit", w, Unit)
    /\ UNCHANGED <<listVars, mailbox>>

\* the worker takes the RequestExit from its mailbox and replies on confirm:
\* WillNotExit when it is busy and not forced, WillExit otherwise, and then
\* its task ends
worker_reply_exit(w) ==
    /\ status = "running"
    /\ manager.exit_req.w = w /\ manager.exit_req.reply = "none"
    /\ workers[w].task = "running"
    /\ IF workers[w].busy /\ ~manager.exit_req.force
       THEN /\ manager' = [manager EXCEPT !.exit_req.reply = "WillNotExit"]
            /\ UNCHANGED workers
       ELSE /\ manager' = [manager EXCEPT !.exit_req.reply = "WillExit"]
            /\ workers' = [workers EXCEPT ![w].task = "ended", ![w].busy = FALSE]
    /\ Return("reply_exit", w, Unit)
    /\ UNCHANGED <<listVars, mailbox>>

\* a manager that removes the worker whatever it replied
handle_exit_reply_removing(w) ==
    /\ Idle
    /\ manager.exit_req.w = w
    /\ manager.exit_req.reply # "none"
    /\ remove_by_key(w)
    /\ retire(w)
    /\ UNCHANGED mailbox

\* ExitRequested -> Exited, or back to Active: the manager resumes with the
\* reply. WillExit: it joins the task and removes the worker by identity.
\* WillNotExit: it aborts the negotiation. A worker whose task ended without
\* a reply closed confirm: its WorkerShutdown does the bookkeeping.
handle_exit_reply(w) ==
    /\ Idle
    /\ manager.exit_req.w = w
    /\ \/ /\ manager.exit_req.reply = "WillExit"
          /\ remove_by_key(w)
          /\ retire(w)
       \/ /\ manager.exit_req.reply = "WillNotExit"
          /\ workers' = [workers EXCEPT ![w].st = "active"]
          /\ manager' = [manager EXCEPT !.exit_req = NoRequest]
          /\ Return("will_not_exit", w, Unit)
          /\ UNCHANGED listVars
       \/ /\ manager.exit_req.reply = "none" /\ workers[w].task = "ended"
          /\ workers' = [workers EXCEPT ![w].st = "active"]
          /\ manager' = [manager EXCEPT !.exit_req = NoRequest]
          /\ Return("confirm_closed", w, Unit)
          /\ UNCHANGED listVars
    /\ UNCHANGED mailbox

\* Drain: no spawn from now on; the drain completes at once when the pool is
\* empty already
handle_drain ==
    /\ status = "running"
    /\ ManagerIdle
    /\ ~manager.draining
    /\ manager' = emit_pool_empty([manager EXCEPT !.draining = TRUE, !.may_spawn = FALSE],
                                  list)
    /\ Return("drain", 0, Unit)
    /\ UNCHANGED <<listVars, workers, mailbox>>

WorkerReportReady == \E w \in Workers : worker_report_ready(w) /\ UNCHANGED poolFrame
WorkerComplete    == \E w \in Workers : worker_complete(w) /\ UNCHANGED poolFrame
WorkerNotifyAgain == \E w \in Workers : worker_notify_again(w) /\ UNCHANGED poolFrame
WorkerFail        == \E w \in Workers : worker_fail(w) /\ UNCHANGED poolFrame
QueueFull         == queue_full /\ UNCHANGED poolFrame
HandleWake        == handle_wake /\ UNCHANGED poolFrame
HandleReady       == \E w \in Workers : handle_ready(w) /\ UNCHANGED poolFrame
Assign            == assign /\ UNCHANGED poolFrame
HandleAvailable   == \E w \in Workers : handle_available(w) /\ UNCHANGED poolFrame
HandleShutdown    == \E w \in Workers : handle_shutdown(w) /\ UNCHANGED poolFrame
RequestExit       == \E w \in Workers, force \in BOOLEAN : request_exit(w, force) /\ UNCHANGED poolFrame
WorkerReplyExit   == \E w \in Workers : worker_reply_exit(w) /\ UNCHANGED poolFrame
HandleExitReply   == \E w \in Workers : handle_exit_reply(w) /\ UNCHANGED poolFrame
HandleDrain       == handle_drain /\ UNCHANGED poolFrame

PoolNext ==
    \/ WorkerReportReady \/ WorkerComplete \/ WorkerNotifyAgain \/ WorkerFail
    \/ QueueFull \/ HandleWake \/ HandleReady \/ Assign \/ HandleAvailable
    \/ HandleShutdown \/ RequestExit \/ WorkerReplyExit \/ HandleExitReply
    \/ HandleDrain

SpecPool == Init /\ [][PoolNext]_vars

(***************************************************************************)
(* Properties of the AvailabilityList.                                     *)
(***************************************************************************)
Did(op, h) == [op |-> op, arg |-> h]

\* C1: order-implies-index. Every box reached by traversing the list is
\* reached by looking up its identity in the tree.
C1_OrderImpliesIndex ==
    \A i \in 1..Len(list) : i \in tree_find(list[i].shared)

\* C2: remove_by_key(h) on a tracked handle (one entry in the index, in the
\* order or not) returns the handle and leaves it in neither the order nor
\* the index; on a handle that is not tracked it returns nothing and changes
\* neither structure.
C2_RemoveByKey ==
    [][\A h \in Handles :
         last' = Did("remove_by_key", h) =>
            /\ tree_count(h) = 0 =>
                  ret' = None /\ list' = list /\ tree_only' = tree_only
            /\ (tree_count(h) = 1 /\ OrderCount(h) <= 1) =>
                  ret' = Some(h) /\ ~InOrder(h)' /\ tree_count(h)' = 0
      ]_vars

\* C3: pop_front_full (pop_back_full) on a non-empty order returns the handle
\* at the front (back) and removes that one entry, which the index held,
\* from both structures, every other entry keeping its place; on an empty
\* order it returns nothing and changes nothing.
C3_PopFull ==
    [][/\ last'.op = "pop_front_full" =>
            IF list = <<>>
            THEN ret' = None /\ list' = list /\ tree_only' = tree_only
            ELSE /\ ret' = Some(list[1].shared)
                 /\ list[1].tree_link
                 /\ list' = Tail(list)
                 /\ tree_only' = tree_only
       /\ last'.op = "pop_back_full" =>
            IF list = <<>>
            THEN ret' = None /\ list' = list /\ tree_only' = tree_only
            ELSE /\ ret' = Some(list[Len(list)].shared)
                 /\ list[Len(list)].tree_link
                 /\ list' = SubSeq(list, 1, Len(list) - 1)
                 /\ tree_only' = tree_only
      ]_vars

\* C4: partial removal round-trip. For a handle with one entry in the index
\* that the order does not link (pushed as new, then removed from the order
\* only), push_front_existing returns Ok and the handle is then at the front
\* (push_back_existing: at the back), the index still holding exactly one
\* entry for it.
C4_RoundTrip ==
    [][\A h \in Handles :
         (tree_count(h) = 1 /\ tree_only[h] = 1 /\ ~InOrder(h)) =>
            /\ last' = Did("push_front_existing", h) =>
                  /\ ret' = InsertOk
                  /\ list' = <<Entry(h)>> \o list
                  /\ tree_count(h)' = 1
            /\ last' = Did("push_back_existing", h) =>
                  /\ ret' = InsertOk
                  /\ list' = list \o <<Entry(h)>>
                  /\ tree_count(h)' = 1
      ]_vars

\* C5: idempotent re-admission. push_front_existing / push_back_existing of
\* a handle that is already in the order (and has no second entry in the
\* index) returns AlreadyInList and changes neither the order nor the index.
C5_AlreadyInList ==
    [][\A h \in Handles :
         (/\ last' \in {Did("push_front_existing", h), Did("push_back_existing", h)}
          /\ InOrder(h)
          /\ tree_count(h) <= 1) =>
            ret' = AlreadyInList /\ list' = list /\ tree_only' = tree_only
      ]_vars

\* C6: LIFO. After k distinct handles are pushed to the front of an empty
\* list, the pops from the front return them last pushed first, and the pop
\* after the k-th returns nothing.
C6_Lifo ==
    \A j \in 1..Len(popped) :
        popped[j] = IF j <= Len(pushed)
                    THEN Some(pushed[Len(pushed) - j + 1])
                    ELSE None

\* three handles were pushed and four pops made
C6_Witness == Len(pushed) = 3 /\ Len(popped) = 4

\* C7: push_front_existing / push_back_existing of a handle whose identity
\* the index does not hold returns NoMatch and changes neither the order nor
\* the index.
C7_NoMatch ==
    [][\A h \in Handles :
         (/\ last' \in {Did("push_front_existing", h), Did("push_back_existing", h)}
          /\ tree_count(h) = 0) =>
            ret' = NoMatch /\ list' = list /\ tree_only' = tree_only
      ]_vars

\* push_back_existing of an untracked handle has returned NoMatch while the
\* list holds other handles
C7_Witness ==
    /\ last.op = "push_back_existing"
    /\ ret = NoMatch
    /\ tree_count(last.arg) = 0
    /\ Len(list) >= 2

\* C8: as long as push_front_new / push_back_new are only called with
\* handles that are not tracked, the index holds at most one entry per
\* handle and the order contains each handle at most once.
AtMostOnce == \A h \in Handles : tree_count(h) <= 1 /\ OrderCount(h) <= 1

C8_AtMostOnce ==
    [][(/\ AtMostOnce
        /\ ~(/\ last'.op \in {"push_front_new", "push_back_new"}
             /\ tree_count(last'.arg) > 0)) =>
          AtMostOnce'
      ]_vars

(***************************************************************************)
(* Properties of the classifier.                                           *)
(***************************************************************************)
IsPrefix(p, s) == Len(p) <= Len(s) /\ SubSeq(s, 1, Len(p)) = p

\* the nine HTTP/1 methods, each followed by one space
Methods == {LitGET, LitHEAD, LitPOST, LitPUT, LitDELETE, LitCONNECT,
            LitOPTIONS, LitTRACE, LitPATCH}

\* C9: fed a method name and one space byte by byte, the classifier is in
\* ACCEPT_HTTP1 exactly once the space is fed, in a non-terminal state after
\* every earlier byte, and its byte counter is the number of bytes fed.
C9_MethodAccepted ==
    \A m \in Methods :
        IsPrefix(fed, m) =>
            /\ index = Len(fed)
            /\ IF fed = m THEN state = "ACCEPT_HTTP1" ELSE state \notin Terminal

\* every method and its space have been fed in full: here OPTIONS
C9_Witness == fed = LitOPTIONS /\ state = "ACCEPT_HTTP1" /\ index = 8

\* C10: fed the 24 bytes of the HTTP/2 preface, the classifier is in
\* ACCEPT_HTTP2 after the last one and in P0 or HTTP2 after every proper
\* non-empty prefix; and it is in ACCEPT_HTTP2 after no other input.
C10_Http2Preface ==
    /\ IsPrefix(fed, LitHTTP2) =>
          IF fed = LitHTTP2 THEN state = "ACCEPT_HTTP2"
          ELSE IF fed = <<>> THEN state = "INIT"
          ELSE state \in {"P0", "HTTP2"}
    /\ state = "ACCEPT_HTTP2" => fed = LitHTTP2

\* the whole preface has been fed
C10_Witness == fed = LitHTTP2 /\ state = "ACCEPT_HTTP2" /\ index = 24

\* whether byte is what the TLS matcher wants at offset off
TlsByteOk(off, byte) ==
    CASE off = 0 -> byte = 22
      [] off = 1 -> byte = 3
      [] off = 2 -> byte = 1
      [] off \in {3, 4} -> TRUE
      [] off = 5 -> byte = 1
      [] OTHER -> FALSE

TlsPrefixOk(k) == \A i \in 1..k : TlsByteOk(i - 1, fed[i])

\* C11: fed 0x16 0x03 0x01 b3 b4 0x01, for any b3 and b4, the classifier is
\* in ACCEPT_TLS after the sixth byte and in TLS after each earlier one; a
\* byte other than the expected one at offset 1, 2 or 5 gives REJECT at that
\* offset (no byte before the last fed was a mismatch).
C11_TlsHeader ==
    (fed # <<>> /\ fed[1] = 22) =>
        /\ Len(fed) <= 6
        /\ TlsPrefixOk(Len(fed) - 1)
        /\ state = IF ~TlsPrefixOk(Len(fed)) THEN "REJECT"
                   ELSE IF Len(fed) = 6 THEN "ACCEPT_TLS"
                   ELSE "TLS"

\* a whole TLS header with length bytes 0xff 0x5a has been fed
C11_Witness ==
    fed = <<22, 3, 1, 255, 90, 1>> /\ state = "ACCEPT_TLS" /\ index = 6

\* the literal that a literal-prefix matcher state compares with
LiteralOf(st) ==
    CASE st = "CONNECT" -> LitCONNECT
      [] st = "DELETE"  -> LitDELETE
      [] st = "GET"     -> LitGET
      [] st = "HEAD"    -> LitHEAD
      [] st = "OPTIONS" -> LitOPTIONS
      [] st = "HTTP2"   -> LitHTTP2
      [] st = "POST"    -> LitPOST
      [] st = "PUT"     -> LitPUT
      [] st = "PATCH"   -> LitPATCH
      [] st = "TRACE"   -> LitTRACE

LiteralStates == {"CONNECT", "DELETE", "GET", "HEAD", "OPTIONS", "HTTP2",
                  "POST", "PUT", "PATCH", "TRACE"}

\* the byte that the step just taken fed
LastFed == fed'[Len(fed')]

\* C12: a mismatch is an immediate reject. A step from INIT with a byte
\* outside {0x16, C, D, G, H, O, P, T}, a step from a literal-prefix matcher
\* state with a byte that is not the next byte of its literal, and a step
\* from P0 with a byte outside {O, U, A, R}, each end in REJECT.
C12_MismatchRejects ==
    [][(fed' # fed) =>
          /\ (state = "INIT" /\ LastFed \notin {22, 67, 68, 71, 72, 79, 80, 84}) =>
                state' = "REJECT"
          /\ (state \in LiteralStates /\ LastFed # LiteralOf(state)[index + 1]) =>
                state' = "REJECT"
          /\ (state = "P0" /\ LastFed \notin {79, 85, 65, 82}) =>
                state' = "REJECT"
      ]_vars

\* "ZZZZ" is rejected on its first byte
C12_Witness == fed = <<90>> /\ state = "REJECT" /\ index = 1

\* C13: bounded prefix. The classifier is in a non-terminal state only while
\* fewer than 24 bytes (the length of the HTTP/2 preface) have been fed, and
\* never takes more than 24.
C13_BoundedPrefix ==
    /\ index = Len(fed)
    /\ Len(fed) <= Len(LitHTTP2)
    /\ state \notin Terminal => Len(fed) < Len(LitHTTP2)

\* 23 bytes have been fed and the classifier is not in a terminal state yet
C13_Witness == Len(fed) = 23 /\ state = "HTTP2"

\* C14: terminal states are final. A call of next in REJECT, ACCEPT_TLS,
\* ACCEPT_HTTP1 or ACCEPT_HTTP2 panics and yields no successor state.
C14_TerminalFinal ==
    [][(state \in Terminal) =>
          /\ status' = "panicked"
          /\ state' = state /\ index' = index /\ fed' = fed
      ]_vars

\* a byte was fed to a classifier that had accepted
C14_Witness == status = "panicked" /\ state = "ACCEPT_HTTP1"


\* C15: when the classifier is in a terminal state after consuming n bytes
\* (n = index), the output is the classification of what was consumed (HTTP1
\* for a method literal, HTTP2 for the preface, TLS for a TLS header, Reject
\* otherwise) together with exactly the n bytes passed to next, in order,
\* whatever else the sniffer has buffered.
C15_OutputReplaysBytes ==
    state \in Terminal =>
        /\ sniffer_output.class \in {"TLS", "HTTP1", "HTTP2", "Reject"}
        /\ (sniffer_output.class = "TLS") = (Len(fed) = 6 /\ TlsPrefixOk(6))
        /\ (sniffer_output.class = "HTTP1") = (fed \in Methods)
        /\ (sniffer_output.class = "HTTP2") = (fed = LitHTTP2)
        /\ sniffer_output.bytes = fed
        /\ Len(sniffer_output.bytes) = index
        /\ IsPrefix(sniffer_output.bytes, replay)

\* "GET G" arrived in the chunks "G", "ET" and " G": the output is HTTP1 with
\* the four bytes consumed, and the buffer holds one byte more
C15_Witness ==
    /\ state = "ACCEPT_HTTP1"
    /\ sniffer_output = [class |-> "HTTP1", bytes |-> <<71, 69, 84, 32>>]
    /\ replay = <<71, 69, 84, 32, 71>>

\* C25: fed any bytes from new() up to the first terminal state, index is the
\* number of bytes fed, the state is INIT exactly when index is 0 and P0
\* only when index is 1; so no byte takes a non-terminal state to an
\* unreachable!() arm, and next panics in a terminal state only.
C25_CounterAndDispatch ==
    /\ index = Len(fed)
    /\ (state = "INIT") = (index = 0)
    /\ state = "P0" => index = 1
    /\ state \notin Terminal =>
          \A b \in Bytes : next_state(state, index, b) # Unreachable
    /\ status = "panicked" => state \in Terminal

\* "P" has been fed: the classifier is in P0 at index 1
C25_Witness == fed = <<80>> /\ state = "P0" /\ index = 1 /\ status = "running"

\* the bytes fed are a TLS record header of a ClientHello: six bytes, 0x16
\* 0x03 0x01 at offsets 0-2 and 0x01 at offset 5
IsTlsHeader(s) ==
    Len(s) = 6 /\ s[1] = 22 /\ s[2] = 3 /\ s[3] = 1 /\ s[6] = 1

\* ACCEPT_HTTP1 only after exactly one of the nine method literals, and
\* ACCEPT_TLS only after exactly a TLS header
AcceptsOnlyAfter ==
    /\ state = "ACCEPT_HTTP1" => fed \in Methods
    /\ state = "ACCEPT_TLS" => IsTlsHeader(fed)

\* a literal matcher accepts its own literal only: while in a matcher the
\* bytes fed are a prefix of its literal, and a step from it to an accept
\* state completes that literal
OwnLiteralOnly ==
    /\ [](state \in LiteralStates => IsPrefix(fed, LiteralOf(state)))
    /\ [][(state \in LiteralStates /\ state' \in {"ACCEPT_HTTP1", "ACCEPT_HTTP2"}) =>
             fed' = LiteralOf(state)]_vars

\* C26, as stated: accepts are sound, and every input other than the nine
\* method literals and the TLS headers that reaches a terminal state reaches
\* REJECT.
C26_AcceptsSound_Stated ==
    /\ [](/\ AcceptsOnlyAfter
          /\ (state \in Terminal /\ fed \notin Methods /\ ~IsTlsHeader(fed)) =>
                state = "REJECT")
    /\ OwnLiteralOnly

\* C26: accepts are sound. The classifier is in ACCEPT_HTTP1 only after
\* exactly one of the nine method literals, in ACCEPT_TLS only after exactly
\* a TLS header, in ACCEPT_HTTP2 only after exactly the HTTP/2 preface; every
\* other input that reaches a terminal state reaches REJECT; and a literal
\* matcher never accepts another literal than its own.
C26_AcceptsSound ==
    /\ [](/\ AcceptsOnlyAfter
          /\ state = "ACCEPT_HTTP2" => fed = LitHTTP2
          /\ (/\ state \in Terminal
              /\ fed \notin Methods /\ ~IsTlsHeader(fed) /\ fed # LitHTTP2) =>
                state = "REJECT")
    /\ OwnLiteralOnly

\* the HTTP/2 preface, which is no method literal and no TLS header, has
\* been accepted
C26_Witness ==
    /\ state = "ACCEPT_HTTP2"
    /\ fed \notin Methods /\ ~IsTlsHeader(fed)
    /\ Len(fed) = 24


(***************************************************************************)
(* Properties of the cursor.                                               *)
(***************************************************************************)
\* C20: after distinct handles are pushed with push_back_new onto an empty
\* list, get on a cursor from cursor_front returns the first handle pushed,
\* and after each move_next the next one in insertion order: the j-th get
\* returns the very handle of the j-th push.
C20_WalkInInsertionOrder ==
    \A j \in 1..Len(popped) :
        j <= Len(pushed) => popped[j] = Some(pushed[j])

\* three handles were pushed and get has returned each of them
C20_Witness == Len(pushed) = 3 /\ Len(popped) = 3 /\ last.op = "get"

\* C21: remove_list at a non-null position returns true and removes the
\* current entry from the order only: the index holds what it held, so the
\* handle is found there with its box not in the list (cursor_at_key reports
\* NotInList, remove_by_key returns it), every other entry keeps its place,
\* and the cursor is on the element that followed; at the null position it
\* returns false and changes nothing.
C21_RemoveListOrderOnly ==
    [][last'.op = "remove_list" =>
          IF cursor = 0
          THEN /\ ret' = Bool(FALSE)
               /\ list' = list /\ tree_only' = tree_only /\ cursor' = cursor
          ELSE /\ ret' = Bool(TRUE)
               /\ list' = SubSeq(list, 1, cursor - 1) \o SubSeq(list, cursor + 1, Len(list))
               /\ cursor' = IF cursor < Len(list) THEN cursor ELSE 0
               /\ \A h \in Handles :
                     /\ tree_count(h)' = tree_count(h)
                     /\ h = list[cursor].shared =>
                           /\ tree_count(h)' >= 1
                           /\ (OrderCount(h) = 1 /\ tree_count(h) = 1) =>
                                 tree_find(h)' = {0}
      ]_vars

\* C22: a structural invariant violation fails loudly. When pop_front_full,
\* pop_back_full or remove_full unlinks from the order a box that the index
\* does not link, the operation panics: it returns no handle, the order has
\* lost that box only and the index is as it was.
C22_FailsLoudly ==
    [][\A i \in 1..Len(list) :
         (/\ ~list[i].tree_link
          /\ \/ last'.op = "pop_front_full" /\ i = 1
             \/ last'.op = "pop_back_full" /\ i = Len(list)
             \/ last'.op = "remove_full" /\ i = cursor) =>
            /\ status' = "panicked"
            /\ ret' = NoReturn
            /\ list' = SubSeq(list, 1, i - 1) \o SubSeq(list, i + 1, Len(list))
            /\ tree_only' = tree_only
      ]_vars

\* C23: remove_full at a non-null position returns the handle of the current
\* entry and removes that entry from the order and from the index, every
\* other entry keeping its place, and leaves the cursor on the element that
\* followed (the null position after the last); at the null position it
\* returns nothing and changes nothing. Each call from cursor_front thus
\* takes the front entry, until is_null.
C23_RemoveFull ==
    [][last'.op = "remove_full" =>
          IF cursor = 0
          THEN /\ ret' = None
               /\ list' = list /\ tree_only' = tree_only /\ cursor' = cursor
          ELSE /\ ret' = Some(list[cursor].shared)
               /\ list' = SubSeq(list, 1, cursor - 1) \o SubSeq(list, cursor + 1, Len(list))
               /\ cursor' = IF cursor < Len(list) THEN cursor ELSE 0
               /\ \A h \in Handles :
                     tree_count(h)' =
                        tree_count(h) - (IF h = list[cursor].shared THEN 1 ELSE 0)
      ]_vars

\* C24: cursor_at_key(h), for a handle that the index and the order each
\* hold at most once, changes neither structure and returns exactly one of
\* NoMatch (h is not in the index), NotInList (h is in the index and not in
\* the order) and Ok (h is in both), the cursor of Ok being on an entry of
\* the order whose handle is h.
C24_CursorAtKey ==
    [][\A h \in Handles :
         (/\ last' = Did("cursor_at_key", h)
          /\ tree_count(h) <= 1 /\ OrderCount(h) <= 1) =>
            /\ list' = list /\ tree_only' = tree_only
            /\ status' = "running"
            /\ ret' \in {NoMatch, NotInList, CursorOk}
            /\ (ret' = NoMatch) = (tree_count(h) = 0)
            /\ (ret' = NotInList) = (tree_count(h) = 1 /\ ~InOrder(h))
            /\ (ret' = CursorOk) = (tree_count(h) = 1 /\ InOrder(h))
            /\ ret' = CursorOk => (cursor' \in 1..Len(list) /\ list[cursor'].shared = h)
            /\ ret' # CursorOk => cursor' = cursor
      ]_vars


Drained ==
    /\ manager.draining
    /\ \A w \in Workers : workers[w].st \in {"unspawned", "exited"}

\* C17: drain completion. After a drain command no worker is spawned, and
\* once every worker has exited the recency order and the identity index are
\* empty and PoolEmpty has been emitted exactly once.
C17_DrainCompletion ==
    [][/\ manager.draining =>
            \A w \in Workers : workers[w].st = "unspawned" => workers'[w].st = "unspawned"
       /\ Drained' =>
            /\ list' = <<>>
            /\ \A h \in Handles : tree_count(h)' = 0
            /\ manager'.pool_empty = 1
      ]_vars

\* C18: re-admission races are benign. Handling WorkerAvailable, a tracked
\* order-absent worker rejoins the order with Ok, and Ok, AlreadyInList and
\* NoMatch alike end the handling with the manager running; the order never
\* holds a worker twice, nor a worker that was fully removed.
C18_ReadmissionBenign ==
    [][/\ \A w \in Workers :
            last' = Did("push_front_existing", w) =>
               /\ status' = "running"
               /\ ret' \in {InsertOk, AlreadyInList, NoMatch}
               /\ mailbox' = Tail(mailbox)
               /\ (tree_count(w) = 1 /\ ~InOrder(w)) => (ret' = InsertOk /\ InOrder(w)')
       /\ \A w \in Workers :
            /\ OrderCount(w)' <= 1
            /\ workers'[w].st = "exited" => ~InOrder(w)'
      ]_vars

\* C19: backpressure signals are coalesced. At most one wake is pending
\* whatever the number of queue_full calls, so the manager's handling of the
\* wake leaves none pending; queue_full spawns no worker and changes nothing
\* but the pending wake, and it can always be called.
C19_WakeCoalesced ==
    /\ [](manager.wakes <= 1)
    /\ []((status = "running" /\ manager.burst < MaxBurst) => ENABLED QueueFull)
    /\ [][/\ last' = Did("queue_full", 0) =>
               /\ workers' = workers /\ mailbox' = mailbox
               /\ manager'.stack = manager.stack
               /\ list' = list /\ tree_only' = tree_only
          /\ last' = Did("wake", 0) => manager'.wakes = 0
         ]_vars

\* a burst of two queue_full calls has left one wake pending
C19_Witness == manager.burst = 2 /\ manager.wakes = 1 /\ last.op = "queue_full"


====
